---- MODULE Spec2Model ----
(***************************************************************************)
(* BufferView / Buffer / TensorOrMemref of the MLIR interpreter framework  *)
(* (tensor_or_memref.h).  The header is modelled operator by operator; the *)
(* out-of-line members of BufferView (getNumElements, getPhysicalIndex,    *)
(* inBounds, getDefaultStrides, getStridesForLayout, slice, subview) have  *)
(* no body in the sources at hand and follow their documented contracts.   *)
(***************************************************************************)
EXTENDS Integers, Sequences, FiniteSets, TLC

VARIABLES
    itView,     \* the BufferView a LogicalIndexView iterates
    itIncl,     \* LogicalIndexView::includeVectorDims
    itIdx,      \* Iterator::viewIndices of the running iterator
    itPc,       \* position of the range-for loop: "start", "loop", "done"
    emitted,    \* the tuples operator* returned so far, in order
    ndebug,     \* TRUE when the build defines NDEBUG: assert() checks nothing
    inView,     \* the BufferView (sizes) the program builds its values from
    heap,       \* the Buffer objects allocated so far
    vals,       \* the TensorOrMemref<float> values alive
    origin,     \* how each value of vals was made
    noted,      \* the last operation that ended in a failed assertion or
                \* in undefined behaviour, or accessed a deallocated Buffer
    status,     \* "running", "aborted" (assert fired), "undefined"
    vw,         \* the view of the TensorOrMemref a chain of calls works on
    vwElems,    \* number of T elements of the Buffer behind vw
    vwLast,     \* the call made last on vw, and whether it succeeded
    vwOps,      \* number of calls made so far
    vwPrev,     \* the view as it was before the slice / subview call made last
    vwReq,      \* the arguments of that call
    prog,       \* the gml_st.parallel nest matchAndRewrite is given (root)
    gpc,        \* position of matchAndRewrite: "start", "while", "for",
                \* "done"
    loopIterators,  \* the stack of operation ranges on hold
    currentLoop,    \* the range the for loop runs over, from its next op on
    launch,     \* the six launch-size operands of the gpu.launch op
    nestingLevelToInductionVarMap,  \* the value of each level's induction var
    bvm,        \* BlockAndValueMapping, on the induction vars of the nest
    cloned,     \* the operations cloned into the gpu.launch body, in order
    gresult,    \* what matchAndRewrite returned: "none", "success", "failure"
    lsLoop,     \* lower bound, upper bound and step of a gml_st.parallel
    lsBound,    \* the launch bound inferred for it, <<>> before that
    lsRan,      \* the block / thread ids that have run
    lsIvs,      \* the induction-variable value each of them ran with
    wkSettings, \* number of settings in the list given to the worker
    wkPc,       \* position of the worker thread
    wkIdx,      \* the setting the worker loop is at
    wkStatus,   \* the local variable status of the loop body
    wkCalls,    \* the calls the worker made, with what they returned
    wkStorage   \* the events held by the storage file

itVars == <<itView, itIncl, itIdx, itPc, emitted>>

tmVars == <<ndebug, inView, heap, vals, origin, noted, status>>

vwVars == <<vw, vwElems, vwLast, vwOps>>

slVars == <<vwPrev, vwReq>>

gpuVars == <<prog, gpc, loopIterators, currentLoop, launch,
             nestingLevelToInductionVarMap, bvm, cloned, gresult>>

lsVars == <<lsLoop, lsBound, lsRan, lsIvs>>

wkVars == <<wkSettings, wkPc, wkIdx, wkStatus, wkCalls, wkStorage>>

\* the variables of the other programs of the repository
passVars == <<gpuVars, lsVars, wkVars>>

\* matchAndRewrite is not running
GpuOff ==
    /\ prog = <<>>
    /\ gpc = "off"
    /\ loopIterators = <<>>
    /\ currentLoop = <<>>
    /\ launch = <<>>
    /\ nestingLevelToInductionVarMap = <<>>
    /\ bvm = <<>>
    /\ cloned = <<>>
    /\ gresult = "none"

\* no launch space is being run
LsOff ==
    /\ lsLoop = <<>>
    /\ lsBound = <<>>
    /\ lsRan = {}
    /\ lsIvs = <<>>

\* no validation worker exists
WkOff ==
    /\ wkSettings = 0
    /\ wkPc = "off"
    /\ wkIdx = 0
    /\ wkStatus = "none"
    /\ wkCalls = <<>>
    /\ wkStorage = <<>>

PassOff == GpuOff /\ LsOff /\ WkOff

vars == <<itView, itIncl, itIdx, itPc, emitted,
          ndebug, inView, heap, vals, origin, noted, status,
          vw, vwElems, vwLast, vwOps, vwPrev, vwReq,
          prog, gpc, loopIterators, currentLoop, launch,
          nestingLevelToInductionVarMap, bvm, cloned, gresult,
          lsLoop, lsBound, lsRan, lsIvs,
          wkSettings, wkPc, wkIdx, wkStatus, wkCalls, wkStorage>>

(***************************************************************************)
(* Bounds of the model.                                                    *)
(***************************************************************************)
MaxRank == 2
MaxDim == 2
MaxOffset == 1
MaxVals == 2
MaxBuffers == 2
MaxNonZero == 1
MaxViewOps == 2

(***************************************************************************)
(* Sequence helpers.                                                       *)
(***************************************************************************)
RECURSIVE SeqProduct(_)
SeqProduct(s) ==
    IF s = <<>> THEN 1 ELSE Head(s) * SeqProduct(Tail(s))

RECURSIVE SeqDot(_, _)
SeqDot(a, b) ==
    IF a = <<>> \/ b = <<>> THEN 0
    ELSE Head(a) * Head(b) + SeqDot(Tail(a), Tail(b))

Zeros(n) == [i \in 1..n |-> 0]

Tuples(n, S) == [1..n -> S]

TuplesUpTo(n, S) == UNION {Tuples(k, S) : k \in 0..n}

(***************************************************************************)
(* std::optional<int64_t>: <<>> is std::nullopt, <<k>> holds k.            *)
(***************************************************************************)
nullopt == <<>>

value_or(o, d) == IF o = nullopt THEN d ELSE o[1]

(***************************************************************************)
(* struct BufferView.                                                      *)
(***************************************************************************)
BufferView(offset, sizes, strides, numVectorDims, isVector) ==
    [offset |-> offset, sizes |-> sizes, strides |-> strides,
     numVectorDims |-> numVectorDims, isVector |-> isVector]

rank(view) == Len(view.sizes) - value_or(view.numVectorDims, 0)

\* Product of the size entries, the trailing vector dimensions left out
\* unless includeVectorDims; the empty product is 1.
getNumElements(view, includeVectorDims) ==
    LET n == Len(view.sizes)
               - (IF includeVectorDims THEN 0
                  ELSE value_or(view.numVectorDims, 0))
    IN  SeqProduct(SubSeq(view.sizes, 1, n))

\* True iff every given index lies in [0, size) of its dimension.
inBounds(view, viewIndices) ==
    /\ Len(viewIndices) <= Len(view.sizes)
    /\ \A i \in 1..Len(viewIndices) :
          0 <= viewIndices[i] /\ viewIndices[i] < view.sizes[i]

\* offset + sum of index * stride.
getPhysicalIndex(view, viewIndices) ==
    view.offset + SeqDot(viewIndices, view.strides)

\* Row-major strides: the last dimension has stride 1, each preceding one
\* the product of the next dimension's size and stride.
RECURSIVE getDefaultStrides(_)
getDefaultStrides(sizes) ==
    IF sizes = <<>> THEN <<>>
    ELSE <<SeqProduct(Tail(sizes))>> \o getDefaultStrides(Tail(sizes))

\* The permutations of 1..n, as minor-to-major layouts (0-based entries).
Layouts(n) ==
    {l \in Tuples(n, 0..(n - 1)) : \A d \in 0..(n - 1) : \E i \in 1..n : l[i] = d}

\* layout lists the dimensions from the most minor one; the empty layout is
\* row-major.
getStridesForLayout(sizes, layout) ==
    IF layout = <<>> THEN getDefaultStrides(sizes)
    ELSE [d \in 1..Len(sizes) |->
            LET pos == CHOOSE i \in 1..Len(layout) : layout[i] = d - 1
            IN  SeqProduct([j \in 1..(pos - 1) |-> sizes[layout[j] + 1]])]

(***************************************************************************)
(* BufferView::LogicalIndexView and its Iterator.                          *)
(***************************************************************************)
Sentinel == <<-1>>

\* Iterator end() const { return {view, {-1}, false}; }
IteratorEnd == Sentinel

\* The loop of operator++, at the k-th position from the back.  skip is the
\* number of trailing size entries sizeIt was advanced over.
RECURSIVE IncrementLoop(_, _, _, _)
IncrementLoop(sizes, skip, viewIndices, k) ==
    IF k > Len(viewIndices)
    THEN Sentinel
    ELSE LET ip == Len(viewIndices) - k + 1
             sp == Len(sizes) - skip - k + 1
             bumped == viewIndices[ip] + 1
         IN  IF bumped < sizes[sp]
             THEN [viewIndices EXCEPT ![ip] = bumped]
             ELSE IncrementLoop(sizes, skip,
                                [viewIndices EXCEPT ![ip] = 0], k + 1)

\* The same loop with the reset of an overflowed position left out.
RECURSIVE IncrementLoopNoReset(_, _, _, _)
IncrementLoopNoReset(sizes, skip, viewIndices, k) ==
    IF k > Len(viewIndices)
    THEN Sentinel
    ELSE LET ip == Len(viewIndices) - k + 1
             sp == Len(sizes) - skip - k + 1
             bumped == viewIndices[ip] + 1
         IN  IF bumped < sizes[sp]
             THEN [viewIndices EXCEPT ![ip] = bumped]
             ELSE IncrementLoopNoReset(sizes, skip,
                                       [viewIndices EXCEPT ![ip] = bumped], k + 1)

IteratorIncrement_NoReset(view, includeVectorDims, viewIndices) ==
    IncrementLoopNoReset(view.sizes,
        IF includeVectorDims THEN 0 ELSE value_or(view.numVectorDims, 0),
        viewIndices, 1)

\* operator++ walking the tuple from the front: first dimension fastest.
RECURSIVE IncrementLoopFront(_, _, _)
IncrementLoopFront(sizes, viewIndices, k) ==
    IF k > Len(viewIndices)
    THEN Sentinel
    ELSE LET bumped == viewIndices[k] + 1
         IN  IF bumped < sizes[k]
             THEN [viewIndices EXCEPT ![k] = bumped]
             ELSE IncrementLoopFront(sizes, [viewIndices EXCEPT ![k] = 0], k + 1)

IteratorIncrement_FrontFirst(view, includeVectorDims, viewIndices) ==
    IncrementLoopFront(view.sizes, viewIndices, 1)

\* Iterator& operator++()
IteratorIncrement(view, includeVectorDims, viewIndices) ==
    IncrementLoop(view.sizes,
        IF includeVectorDims THEN 0 ELSE value_or(view.numVectorDims, 0),
        viewIndices, 1)

\* Iterator begin() const: the emptiness test calls getNumElements() with
\* its default argument, includeVectorDims = false.
LogicalIndexViewBegin(view, includeVectorDims) ==
    IF getNumElements(view, FALSE) = 0
    THEN IteratorEnd
    ELSE Zeros(rank(view)
               + (IF includeVectorDims THEN value_or(view.numVectorDims, 0) ELSE 0))

\* The whole sequence a range-for over indices(includeVectorDims) visits.
RECURSIVE IterateFrom(_, _, _)
IterateFrom(view, includeVectorDims, it) ==
    IF it = IteratorEnd THEN <<>>
    ELSE <<it>> \o IterateFrom(view, includeVectorDims,
                               IteratorIncrement(view, includeVectorDims, it))

indices(view, includeVectorDims) ==
    IterateFrom(view, includeVectorDims,
                LogicalIndexViewBegin(view, includeVectorDims))

(***************************************************************************)
(* The views a caller can hand to indices(): any sizes, numVectorDims      *)
(* unset or counting trailing entries, any layout of strides, any offset.  *)
(***************************************************************************)
Shapes == TuplesUpTo(MaxRank, 0..MaxDim)

VectorDimChoices(sizes) == {nullopt} \cup {<<k>> : k \in 0..Len(sizes)}

\* isVector is set only on a view whose numVectorDims is nullopt.
ViewsOfShape(sizes) ==
    {v \in {BufferView(off, sizes, getStridesForLayout(sizes, l), nv, isv) :
                off \in 0..MaxOffset,
                l \in {<<>>} \cup Layouts(Len(sizes)),
                nv \in VectorDimChoices(sizes),
                isv \in BOOLEAN} :
        v.isVector => v.numVectorDims = nullopt}

InputViews == UNION {ViewsOfShape(s) : s \in Shapes}

(***************************************************************************)
(* A range-for loop over V.indices(includeVectorDims).                     *)
(***************************************************************************)
IterInit ==
    /\ PassOff
    /\ itView \in InputViews
    /\ itIncl \in BOOLEAN
    /\ itIdx = <<>>
    /\ itPc = "start"
    /\ emitted = <<>>
    /\ ndebug = FALSE
    /\ inView = BufferView(0, <<>>, <<>>, nullopt, FALSE)
    /\ heap = <<>>
    /\ vals = <<>>
    /\ origin = <<>>
    /\ noted = <<>>
    /\ status = "running"
    /\ vw = BufferView(0, <<>>, <<>>, nullopt, FALSE)
    /\ vwElems = 0
    /\ vwLast = <<>>
    /\ vwOps = 0
    /\ vwPrev = <<>>
    /\ vwReq = <<>>

\* it = begin()
IterBegin ==
    /\ itPc = "start"
    /\ itIdx' = LogicalIndexViewBegin(itView, itIncl)
    /\ itPc' = "loop"
    /\ UNCHANGED <<itView, itIncl, emitted>>
    /\ UNCHANGED <<tmVars, vwVars, slVars, passVars>>

\* it != end(): the body reads *it, then ++it
IterStep ==
    /\ itPc = "loop"
    /\ itIdx # IteratorEnd
    /\ emitted' = Append(emitted, itIdx)
    /\ itIdx' = IteratorIncrement(itView, itIncl, itIdx)
    /\ UNCHANGED <<itView, itIncl, itPc>>
    /\ UNCHANGED <<tmVars, vwVars, slVars, passVars>>

\* it == end(): the loop is left
IterDone ==
    /\ itPc = "loop"
    /\ itIdx = IteratorEnd
    /\ itPc' = "done"
    /\ UNCHANGED <<itView, itIncl, itIdx, emitted>>
    /\ UNCHANGED <<tmVars, vwVars, slVars, passVars>>

IterNext == IterBegin \/ IterStep \/ IterDone

SpecIndices == IterInit /\ [][IterNext]_vars

(***************************************************************************)
(* Properties of the index sequence.                                       *)
(***************************************************************************)
\* The size entries the iteration runs over: all of them, or the tensor
\* dimensions alone.
IterSizes(view, includeVectorDims) ==
    SubSeq(view.sizes, 1,
           Len(view.sizes) - (IF includeVectorDims THEN 0
                              ELSE value_or(view.numVectorDims, 0)))

\* Product of the trailing vector-dimension sizes.
VectorElements(view) ==
    SeqProduct(SubSeq(view.sizes, rank(view) + 1, Len(view.sizes)))

\* The coordinate tuples of the view.
Coordinates(view, includeVectorDims) ==
    LET r == IterSizes(view, includeVectorDims)
    IN  {t \in Tuples(Len(r), 0..MaxDim) : \A i \in 1..Len(r) : t[i] < r[i]}

\* Position of a coordinate tuple in row-major order, from 0.
RECURSIVE RowMajorRank(_, _)
RowMajorRank(radix, t) ==
    IF t = <<>> THEN 0
    ELSE RowMajorRank(SubSeq(radix, 1, Len(radix) - 1), SubSeq(t, 1, Len(t) - 1))
             * radix[Len(radix)] + t[Len(t)]

\* next is prev with the last position that does not overflow advanced by
\* one, every position right of it having overflowed and gone back to 0.
IsOdometerSuccessor(radix, prev, next) ==
    /\ Len(next) = Len(prev)
    /\ \E k \in 1..Len(prev) :
          /\ next[k] = prev[k] + 1
          /\ next[k] < radix[k]
          /\ \A j \in 1..(k - 1) : next[j] = prev[j]
          /\ \A j \in (k + 1)..Len(prev) : next[j] = 0 /\ prev[j] + 1 >= radix[j]

AllPositionsOverflow(radix, prev) ==
    \A j \in 1..Len(prev) : prev[j] + 1 >= radix[j]

\* The iterator states seen so far: every dereferenced tuple, then the
\* current state.
IterTrace == IF itPc = "start" THEN <<>> ELSE Append(emitted, itIdx)

\* C1: iterating indices(includeVectorDims) from begin() to end() emits
\* only in-bounds tuples, each coordinate tuple exactly once,
\* getNumElements(includeVectorDims) tuples in all, and ends in [-1].
C1_IterationEnumeratesView ==
    /\ \A k \in 1..Len(emitted) : inBounds(itView, emitted[k])
    /\ \A i, j \in 1..Len(emitted) : i # j => emitted[i] # emitted[j]
    /\ itPc = "done" =>
          /\ Len(emitted) = getNumElements(itView, itIncl)
          /\ {emitted[k] : k \in 1..Len(emitted)} = Coordinates(itView, itIncl)
          /\ itIdx = Sentinel

\* A view whose vector dimensions hold no zero size entry.
NoZeroVectorDim(view) ==
    \A i \in (rank(view) + 1)..Len(view.sizes) : view.sizes[i] # 0

\* The enumeration property on the views begin() tests correctly.
IterationEnumeratesNonZeroVectorViews ==
    (NoZeroVectorDim(itView) \/ ~itIncl) => C1_IterationEnumeratesView

\* C2: a view with zero elements under the requested includeVectorDims
\* has begin() = end(): nothing is emitted.
C2_ZeroElementsEmpty ==
    (itPc # "start" /\ getNumElements(itView, itIncl) = 0) =>
        (itIdx = IteratorEnd /\ emitted = <<>>)

\* C3: the first tuple is all zeros; each operator++ advances the tuple as
\* a mixed-radix counter, last dimension fastest with carry to the left,
\* and reaches [-1] only when the most significant position overflows; from
\* a coordinate of the view it yields the next coordinate in row-major
\* order.
C3_RowMajorOrder ==
    LET radix == IterSizes(itView, itIncl)
        tr == IterTrace
    IN  /\ (tr # <<>> /\ tr[1] # Sentinel) => tr[1] = Zeros(Len(radix))
        /\ \A k \in 1..(Len(tr) - 1) :
              LET prev == tr[k]
                  next == tr[k + 1]
              IN  /\ prev # Sentinel
                  /\ (next = Sentinel) <=> AllPositionsOverflow(radix, prev)
                  /\ next # Sentinel => IsOdometerSuccessor(radix, prev, next)
                  /\ (inBounds(itView, prev) /\ next # Sentinel) =>
                        /\ inBounds(itView, next)
                        /\ RowMajorRank(radix, next) = RowMajorRank(radix, prev) + 1
                  /\ (inBounds(itView, prev) /\ next = Sentinel) =>
                        RowMajorRank(radix, prev) + 1 = SeqProduct(radix)

C3_Witness ==
    /\ itPc = "loop"
    /\ itView.sizes = <<2, 2>>
    /\ emitted # <<>>
    /\ emitted[Len(emitted)] = <<0, 1>>
    /\ itIdx = <<1, 0>>

DefaultStridedView(view) ==
    view.offset = 0 /\ view.strides = getDefaultStrides(view.sizes)

PhysicalIndices == [k \in 1..Len(emitted) |-> getPhysicalIndex(itView, emitted[k])]

\* C4 as stated: with offset 0 and default strides the physical indices of
\* indices() are 0, 1, ..., getNumElements()-1 in this order.
C4_DefaultStridesDense ==
    (itPc = "done" /\ ~itIncl /\ DefaultStridedView(itView)) =>
        PhysicalIndices = [k \in 1..getNumElements(itView, FALSE) |-> k - 1]

\* C4 amended: with offset 0 and default strides the k-th tuple of
\* indices() (k from 0) has physical index k * W, W the number of elements
\* of the trailing vector dimensions (1 when there are none).
C4_DefaultStridesStepByVector ==
    (itPc = "done" /\ ~itIncl /\ DefaultStridedView(itView)) =>
        PhysicalIndices = [k \in 1..getNumElements(itView, FALSE) |->
                              (k - 1) * VectorElements(itView)]

C4_Witness ==
    /\ itPc = "done"
    /\ ~itIncl
    /\ DefaultStridedView(itView)
    /\ itView.sizes = <<2, 2>>
    /\ itView.numVectorDims = <<1>>
    /\ Len(emitted) = 2

(***************************************************************************)
(* class Buffer.  The element type T is float; storage is kept element by  *)
(* element, at(idx, sizeof(T)) addressing element idx.                     *)
(***************************************************************************)
Elem == {"0.0", "1.0", "NaN"}

isnan(x) == x = "NaN"

\* operator!= of float: NaN differs from everything
FloatNotEqual(a, b) == isnan(a) \/ isnan(b) \/ a # b

\* Buffer(Dummy, numElements, elementSize): storage(numElements * elementSize),
\* zero bytes; isDeallocated = false
NewBuffer(numElements) ==
    [storage |-> [i \in 1..numElements |-> "0.0"], isDeallocated |-> FALSE]

\* sizeof(T), T = float
sizeofT == 4

\* int64_t getByteSize() const { return storage.size(); }: storage holds
\* sizeof(T) bytes for each element
getByteSize(buf) == Len(buf.storage) * sizeofT

\* void deallocate(), flipping the flag instead of setting it
deallocate_Toggle(buf) == [buf EXCEPT !.isDeallocated = ~buf.isDeallocated]

\* void deallocate() { isDeallocated = true; }
deallocate(buf) == [buf EXCEPT !.isDeallocated = TRUE]

\* bool deallocated() const
deallocated(buf) == buf.isDeallocated

\* Buffer::at without its assertion
BufferAt_NoAssert(buf, idx) ==
    IF 0 <= idx /\ idx < Len(buf.storage) THEN "ok" ELSE "undefined"

\* Buffer::at(idx, elementSize): assert(!isDeallocated) aborts unless NDEBUG
\* is defined; the pointer is then formed, and using it outside storage is
\* undefined.
BufferAt(buf, idx) ==
    IF ~ndebug /\ buf.isDeallocated THEN "assert"
    ELSE IF 0 <= idx /\ idx < Len(buf.storage) THEN "ok" ELSE "undefined"

(***************************************************************************)
(* struct TensorOrMemref<float>: buffer is the shared_ptr, an index into   *)
(* heap.                                                                   *)
(***************************************************************************)
TensorOrMemref(buffer, view) == [buffer |-> buffer, view |-> view]

\* TensorOrMemref::at(indices): assert(view.inBounds(indices)), then
\* buffer->at(view.getPhysicalIndex(indices), sizeof(T))
AtOutcome(buf, view, idx) ==
    IF ~ndebug /\ ~inBounds(view, idx) THEN "assert"
    ELSE BufferAt(buf, getPhysicalIndex(view, idx))

\* the element at() refers to, when AtOutcome is "ok"
AtValue(buf, view, idx) == buf.storage[getPhysicalIndex(view, idx) + 1]

AtAssign(buf, view, idx, x) ==
    [buf EXCEPT !.storage[getPhysicalIndex(view, idx) + 1] = x]

\* emptyLike: the view of the result
emptyLikeView(view, layout) ==
    [view EXCEPT !.offset = 0,
                 !.strides = getStridesForLayout(view.sizes, layout)]

\* emptyLike allocating for the tensor dimensions only
emptyLikeBuffer_TensorDimsOnly(view) == NewBuffer(getNumElements(view, FALSE))

\* emptyLike: Buffer::allocate<T>(view.getNumElements(true))
emptyLikeBuffer(view) == NewBuffer(getNumElements(view, TRUE))

\* empty: BufferView dummy{0, sizes, {}}
emptyDummy(sizes) == BufferView(0, sizes, <<>>, nullopt, FALSE)

\* clone handing back the source's buffer pointer
resultBuffer_Shared(source, fresh) == IF source = 0 THEN fresh ELSE source

\* the shared_ptr stored in the value emptyLike returns: the fresh Buffer
resultBuffer(source, fresh) == fresh

\* The copy loop of clone over zip(view.indices(true), out.view.indices(true)).
RECURSIVE CopyLoop(_, _, _, _, _, _, _)
CopyLoop(srcBuf, srcView, outBuf, outView, srcIdx, dstIdx, k) ==
    IF k > Len(srcIdx) \/ k > Len(dstIdx)
    THEN [outcome |-> "ok", buffer |-> outBuf]
    ELSE LET r == AtOutcome(srcBuf, srcView, srcIdx[k])
             w == AtOutcome(outBuf, outView, dstIdx[k])
         IN  IF r # "ok" THEN [outcome |-> r, buffer |-> outBuf]
             ELSE IF w # "ok" THEN [outcome |-> w, buffer |-> outBuf]
             ELSE CopyLoop(srcBuf, srcView,
                           AtAssign(outBuf, outView, dstIdx[k],
                                    AtValue(srcBuf, srcView, srcIdx[k])),
                           outView, srcIdx, dstIdx, k + 1)

\* clone(layout): outcome and the filled buffer of the result
clone(srcBuf, srcView, layout) ==
    LET outView == emptyLikeView(srcView, layout)
    IN  CopyLoop(srcBuf, srcView, emptyLikeBuffer(srcView), outView,
                 indices(srcView, TRUE), indices(outView, TRUE), 1)

\* vectorAt keeping every stride of the source view
vectorAt_AllStrides(t, idx) ==
    TensorOrMemref(t.buffer,
        BufferView(getPhysicalIndex(t.view, idx),
                   SubSeq(t.view.sizes, rank(t.view) + 1, Len(t.view.sizes)),
                   t.view.strides,
                   nullopt, TRUE))

\* vectorAt taking the leading entries in place of the trailing ones
vectorAt_Leading(t, idx) ==
    TensorOrMemref(t.buffer,
        BufferView(getPhysicalIndex(t.view, idx),
                   SubSeq(t.view.sizes, 1, Len(t.view.sizes) - rank(t.view)),
                   SubSeq(t.view.strides, 1, Len(t.view.strides) - rank(t.view)),
                   nullopt, TRUE))

\* TensorOrMemref vectorAt(ArrayRef<int64_t> indices) const
vectorAt(t, idx) ==
    TensorOrMemref(t.buffer,
        BufferView(getPhysicalIndex(t.view, idx),
                   SubSeq(t.view.sizes, rank(t.view) + 1, Len(t.view.sizes)),
                   SubSeq(t.view.strides, rank(t.view) + 1, Len(t.view.strides)),
                   nullopt, TRUE))

\* The loop of operator== over view.indices(true).
RECURSIVE EqualLoop(_, _, _, _, _, _)
EqualLoop(buf, view, obuf, oview, idxs, k) ==
    IF k > Len(idxs) THEN "true"
    ELSE LET a == AtOutcome(buf, view, idxs[k])
             b == AtOutcome(obuf, oview, idxs[k])
         IN  IF a # "ok" THEN a
             ELSE IF b # "ok" THEN b
             ELSE LET thisnan == isnan(AtValue(buf, view, idxs[k]))
                      othernan == isnan(AtValue(obuf, oview, idxs[k]))
                  IN  IF thisnan \/ othernan
                      THEN IF thisnan /\ othernan
                           THEN EqualLoop(buf, view, obuf, oview, idxs, k + 1)
                           ELSE "false"
                      ELSE IF FloatNotEqual(AtValue(buf, view, idxs[k]),
                                            AtValue(obuf, oview, idxs[k]))
                           THEN "false"
                           ELSE EqualLoop(buf, view, obuf, oview, idxs, k + 1)

\* operator== comparing the elements without the NaN case
operatorEq_PlainCompare(buf, view, obuf, oview) ==
    IF deallocated(buf) \/ deallocated(obuf) THEN "false"
    ELSE IF oview.sizes # view.sizes THEN "false"
    ELSE IF oview.numVectorDims # view.numVectorDims THEN "false"
    ELSE IF \E c \in {t \in Tuples(Len(view.sizes), 0..MaxDim) : inBounds(view, t)} :
               FloatNotEqual(AtValue(buf, view, c), AtValue(obuf, oview, c))
         THEN "false" ELSE "true"

\* bool operator==(const TensorOrMemref& other) const: "true", "false", or
\* the way an element access ended it
operatorEq(buf, view, obuf, oview) ==
    IF deallocated(buf) \/ deallocated(obuf) THEN "false"
    ELSE IF oview.sizes # view.sizes THEN "false"
    ELSE IF oview.numVectorDims # view.numVectorDims THEN "false"
    ELSE EqualLoop(buf, view, obuf, oview, indices(view, TRUE), 1)

(***************************************************************************)
(* A program using TensorOrMemref<float>.                                  *)
(***************************************************************************)
\* The argument of emptyLike; emptyLike reads its sizes, numVectorDims and
\* isVector only.
TensorInputViews == {v \in InputViews : DefaultStridedView(v)}

\* origin entry: the operation that made a value, the value it was made
\* from, the index given, whether that source was deallocated, and for a
\* clone the results of out == source and source == out taken on return
Made(op, src, idx, srcDead, eq) ==
    [op |-> op, src |-> src, idx |-> idx, srcDead |-> srcDead, eq |-> eq]

\* an operation, the value it went through and how it ended
Did(op, tgt, outcome) == [op |-> op, tgt |-> tgt, outcome |-> outcome]

\* what the process is after an access ended with the given outcome
StatusAfter(outcome) ==
    IF outcome = "assert" THEN "aborted"
    ELSE IF outcome = "undefined" THEN "undefined"
    ELSE "running"

\* number of elements of the heap that are not 0.0
RECURSIVE NonZeroFrom(_, _, _)
NonZeroFrom(h, b, k) ==
    IF b > Len(h) THEN 0
    ELSE IF k > Len(h[b].storage) THEN NonZeroFrom(h, b + 1, 1)
    ELSE (IF h[b].storage[k] # "0.0" THEN 1 ELSE 0) + NonZeroFrom(h, b, k + 1)

NonZero(h) == NonZeroFrom(h, 1, 1)

TmInit ==
    /\ PassOff
    /\ ndebug \in BOOLEAN
    /\ inView \in TensorInputViews
    /\ heap = <<>>
    /\ vals = <<>>
    /\ origin = <<>>
    /\ noted = Did("none", 0, "ok")
    /\ status = "running"
    /\ itView = BufferView(0, <<>>, <<>>, nullopt, FALSE)
    /\ itIncl = FALSE
    /\ itIdx = <<>>
    /\ itPc = "start"
    /\ emitted = <<>>
    /\ vw = BufferView(0, <<>>, <<>>, nullopt, FALSE)
    /\ vwElems = 0
    /\ vwLast = <<>>
    /\ vwOps = 0
    /\ vwPrev = <<>>
    /\ vwReq = <<>>

\* vals.push_back(emptyLike(view, layout)), for empty and emptyLike
PushEmptyLike(view, layout) ==
    /\ status = "running"
    /\ Len(vals) < MaxVals
    /\ Len(heap) < MaxBuffers
    /\ heap' = Append(heap, emptyLikeBuffer(view))
    /\ vals' = Append(vals, TensorOrMemref(resultBuffer(0, Len(heap) + 1),
                                           emptyLikeView(view, layout)))
    /\ origin' = Append(origin, Made("emptyLike", 0, <<>>, FALSE, <<>>))
    /\ UNCHANGED <<ndebug, inView, noted, status>>
    /\ UNCHANGED <<itVars, vwVars, slVars, passVars>>

\* TensorOrMemref<T>::empty(sizes, layout)
Empty ==
    \E layout \in {<<>>} \cup Layouts(Len(inView.sizes)) :
        PushEmptyLike(emptyDummy(inView.sizes), layout)

\* TensorOrMemref<T>::emptyLike(view, layout)
EmptyLike ==
    \E layout \in {<<>>} \cup Layouts(Len(inView.sizes)) :
        PushEmptyLike(inView, layout)

\* vals.push_back(vals[i].clone(layout)); the caller then compares the
\* clone with its source, both ways
Clone ==
    \E i \in 1..Len(vals) :
    \E layout \in {<<>>} \cup Layouts(Len(vals[i].view.sizes)) :
        LET t == vals[i]
            r == clone(heap[t.buffer], t.view, layout)
            outView == emptyLikeView(t.view, layout)
            out == TensorOrMemref(resultBuffer(t.buffer, Len(heap) + 1), outView)
            newHeap == Append(heap, r.buffer)
        IN  /\ status = "running"
            /\ Len(vals) < MaxVals
            /\ Len(heap) < MaxBuffers
            /\ IF r.outcome = "ok"
               THEN /\ heap' = newHeap
                    /\ vals' = Append(vals, out)
                    /\ origin' = Append(origin,
                          Made("clone", i, <<>>, deallocated(heap[t.buffer]),
                               <<operatorEq(newHeap[out.buffer], out.view,
                                            newHeap[t.buffer], t.view),
                                 operatorEq(newHeap[t.buffer], t.view,
                                            newHeap[out.buffer], out.view)>>))
                    /\ UNCHANGED <<status, noted>>
               ELSE /\ status' = StatusAfter(r.outcome)
                    /\ noted' = Did("clone", i, r.outcome)
                    /\ UNCHANGED <<heap, vals, origin>>
            /\ UNCHANGED <<ndebug, inView>>
            /\ UNCHANGED <<itVars, vwVars, slVars, passVars>>

\* vals.push_back(vals[i].vectorAt(idx)), idx in bounds as the caller owes
VectorAt ==
    \E i \in 1..Len(vals) :
    \E idx \in Tuples(rank(vals[i].view), 0..MaxDim) :
        /\ status = "running"
        /\ Len(vals) < MaxVals
        /\ inBounds(vals[i].view, idx)
        /\ vals' = Append(vals, vectorAt(vals[i], idx))
        /\ origin' = Append(origin,
              Made("vectorAt", i, idx, deallocated(heap[vals[i].buffer]), <<>>))
        /\ UNCHANGED <<ndebug, inView, heap, noted, status>>
        /\ UNCHANGED <<itVars, vwVars, slVars, passVars>>

\* noted after an element access through vals[i] that ended with outcome o
NotedAfterAccess(op, i, o) ==
    IF o # "ok" \/ deallocated(heap[vals[i].buffer])
    THEN Did(op, i, o)
    ELSE noted

\* vals[i].at(idx) = x, idx in bounds as the caller owes
Write ==
    \E i \in 1..Len(vals) :
    \E idx \in Tuples(Len(vals[i].view.sizes), 0..MaxDim) :
    \E x \in Elem :
        LET t == vals[i]
            o == AtOutcome(heap[t.buffer], t.view, idx)
        IN  /\ status = "running"
            /\ inBounds(t.view, idx)
            /\ noted' = NotedAfterAccess("at", i, o)
            /\ status' = StatusAfter(o)
            /\ heap' = IF o = "ok"
                       THEN [heap EXCEPT ![t.buffer] = AtAssign(@, t.view, idx, x)]
                       ELSE heap
            /\ NonZero(heap') <= MaxNonZero
            /\ UNCHANGED <<ndebug, inView, vals, origin>>
            /\ UNCHANGED <<itVars, vwVars, slVars, passVars>>

\* x = vals[i].at(idx), idx in bounds as the caller owes
At ==
    \E i \in 1..Len(vals) :
    \E idx \in Tuples(Len(vals[i].view.sizes), 0..MaxDim) :
        LET t == vals[i]
            o == AtOutcome(heap[t.buffer], t.view, idx)
        IN  /\ status = "running"
            /\ inBounds(t.view, idx)
            /\ noted' = NotedAfterAccess("at", i, o)
            /\ status' = StatusAfter(o)
            /\ UNCHANGED <<ndebug, inView, heap, vals, origin>>
            /\ UNCHANGED <<itVars, vwVars, slVars, passVars>>

\* vals[i].buffer->deallocate()
Deallocate ==
    \E i \in 1..Len(vals) :
        /\ status = "running"
        /\ heap' = [heap EXCEPT ![vals[i].buffer] = deallocate(@)]
        /\ UNCHANGED <<ndebug, inView, vals, origin, noted, status>>
        /\ UNCHANGED <<itVars, vwVars, slVars, passVars>>

TmNext == Empty \/ EmptyLike \/ Clone \/ VectorAt \/ Write \/ At \/ Deallocate

SpecTensor == TmInit /\ [][TmNext]_vars

(***************************************************************************)
(* Properties of TensorOrMemref values.                                    *)
(***************************************************************************)
Buf(i) == heap[vals[i].buffer]

\* vals[i] == vals[j]
Eq(i, j) == operatorEq(Buf(i), vals[i].view, Buf(j), vals[j].view)

\* Two elements count as equal: both NaN, or neither and the same number.
SameElement(x, y) ==
    \/ isnan(x) /\ isnan(y)
    \/ ~isnan(x) /\ ~isnan(y) /\ x = y

\* The element of value t at coordinate c, read from heap h.
ElementIn(h, t, c) == h[t.buffer].storage[getPhysicalIndex(t.view, c) + 1]

\* What can be seen of a value: the flag of its buffer, and its elements.
ObservedIn(h, t) ==
    [dead |-> h[t.buffer].isDeallocated,
     elems |-> [c \in Coordinates(t.view, TRUE) |-> ElementIn(h, t, c)]]

\* The value a value was taken from by vectorAt calls alone.
RECURSIVE Root(_)
Root(j) == IF origin[j].op = "vectorAt" THEN Root(origin[j].src) ELSE j

\* C5: the clone of a value whose buffer is not deallocated equals it;
\* once either buffer is deallocated, == is false both ways.
C5_CloneEquality ==
    /\ noted.op = "clone" => deallocated(Buf(noted.tgt))
    /\ \A j \in 1..Len(vals) :
          origin[j].op = "clone" =>
             /\ ~origin[j].srcDead => origin[j].eq = <<"true", "true">>
             /\ (deallocated(Buf(j)) \/ deallocated(Buf(origin[j].src))) =>
                   (Eq(j, origin[j].src) = "false" /\ Eq(origin[j].src, j) = "false")

\* C5 on the values that have no zero-size vector dimension.
CloneEqualityOnNonZeroVectorViews ==
    NoZeroVectorDim(inView) => C5_CloneEquality

ExpectedEqual(i, j) ==
    /\ ~deallocated(Buf(i))
    /\ ~deallocated(Buf(j))
    /\ vals[i].view.sizes = vals[j].view.sizes
    /\ vals[i].view.numVectorDims = vals[j].view.numVectorDims
    /\ \A c \in Coordinates(vals[i].view, TRUE) :
          SameElement(ElementIn(heap, vals[i], c), ElementIn(heap, vals[j], c))

\* C6: == is true iff neither buffer is deallocated, sizes and
\* numVectorDims agree and all elements are equal, NaN equal to NaN only;
\* strides and offsets play no part.
C6_EqualityIff ==
    \A i, j \in 1..Len(vals) :
        Eq(i, j) = (IF ExpectedEqual(i, j) THEN "true" ELSE "false")

\* C6 on the values that have no zero-size vector dimension.
EqualityIffOnNonZeroVectorViews ==
    NoZeroVectorDim(inView) => C6_EqualityIff

\* Two values share a Buffer exactly when one was taken from the other, or
\* both from a third, by vectorAt; a vector taken by vectorAt(idx) shows the
\* elements of its source at (idx, .) and its source's flag.
C7_Sharing ==
    /\ \A i, j \in 1..Len(vals) :
          (vals[i].buffer = vals[j].buffer) <=> (Root(i) = Root(j))
    /\ \A j \in 1..Len(vals) :
          origin[j].op = "vectorAt" =>
             LET i == origin[j].src
             IN  /\ deallocated(Buf(j)) = deallocated(Buf(i))
                 /\ \A c \in Coordinates(vals[j].view, TRUE) :
                       ElementIn(heap, vals[j], c)
                          = ElementIn(heap, vals[i], origin[j].idx \o c)

\* No step changes what is seen of two values that do not stem from the
\* same value by vectorAt.
C7_FrameStep ==
    \A i, j \in 1..Len(vals) :
        (Root(i) # Root(j) /\ ObservedIn(heap', vals[i]) # ObservedIn(heap, vals[i]))
            => ObservedIn(heap', vals[j]) = ObservedIn(heap, vals[j])

\* C7: clone and emptyLike give a value on a fresh Buffer: a write or a
\* deallocate through the clone leaves the original as it was, and the
\* other way round; vectorAt gives a value on the source's Buffer, so a
\* write or a deallocate through one is seen through the other.
C7_FreshOrShared == []C7_Sharing /\ [][C7_FrameStep]_vars

C7_Witness ==
    /\ Len(vals) = 2
    /\ origin[2].op = "clone"
    /\ deallocated(Buf(2))
    /\ ~deallocated(Buf(1))
    /\ \E c \in Coordinates(vals[1].view, TRUE) :
          ElementIn(heap, vals[1], c) = "NaN" /\ ElementIn(heap, vals[2], c) = "0.0"

TrailingEntries(s, n) == [k \in 1..n |-> s[Len(s) - n + k]]

\* C8: t.vectorAt(i) is on t's Buffer; its sizes and strides are the
\* trailing numVectorDims entries of t's, its offset is
\* t.view.getPhysicalIndex(i), isVector is set and numVectorDims unset;
\* element j of it is the storage element of t at (i, j).
C8_VectorAtView ==
    \A j \in 1..Len(vals) :
        origin[j].op = "vectorAt" =>
           LET t == vals[origin[j].src]
               i == origin[j].idx
               v == vals[j]
               n == value_or(t.view.numVectorDims, 0)
           IN  /\ v.buffer = t.buffer
               /\ v.view.sizes = TrailingEntries(t.view.sizes, n)
               /\ v.view.strides = TrailingEntries(t.view.strides, n)
               /\ v.view.offset = getPhysicalIndex(t.view, i)
               /\ v.view.isVector
               /\ v.view.numVectorDims = nullopt
               /\ \A c \in Coordinates(v.view, TRUE) :
                     getPhysicalIndex(v.view, c) = getPhysicalIndex(t.view, i \o c)

C8_Witness ==
    /\ Len(vals) = 2
    /\ origin[2].op = "vectorAt"
    /\ origin[2].idx = <<1>>
    /\ vals[1].view.sizes = <<2, 2>>
    /\ vals[1].view.numVectorDims = <<1>>
    /\ vals[2].view.sizes = <<2>>
    /\ vals[2].view.offset = 2

\* C9 as stated: an element access through a deallocated Buffer is
\* rejected by the assertion.
C9_DeadAccessRejected ==
    (noted.op = "at" /\ deallocated(Buf(noted.tgt))) => noted.outcome = "assert"

C9_DeadAccess ==
    (noted.op = "at" /\ deallocated(Buf(noted.tgt))) =>
        noted.outcome = (IF ndebug THEN "ok" ELSE "assert")

C9_FlagStays ==
    \A b \in 1..Len(heap) : deallocated(heap[b]) => deallocated(heap'[b])

\* C9 amended: once deallocate() was called deallocated() stays true; an
\* element access through the Buffer is rejected by the assertion in a
\* build with assertions, and returns the element of the storage still
\* held when NDEBUG is defined.
C9_DeadStaysDeadAndAsserts == []C9_DeadAccess /\ [][C9_FlagStays]_vars

C9_Witness ==
    /\ ~ndebug
    /\ noted = Did("at", 2, "assert")
    /\ origin[2].op = "vectorAt"
    /\ status = "aborted"
    /\ deallocated(Buf(1))

(***************************************************************************)
(* BufferView::slice and BufferView::subview.                              *)
(***************************************************************************)
RemoveAt(s, d) == SubSeq(s, 1, d - 1) \o SubSeq(s, d + 1, Len(s))

slice_OffsetKept(view, d, dimOffset) ==
    [view EXCEPT !.sizes = RemoveAt(@, d),
                 !.strides = RemoveAt(@, d)]

\* slice(dimIndex, dimOffset): dimension dimIndex is fixed at dimOffset, its
\* contribution folded into offset, its entry taken out of sizes and
\* strides.  d is dimIndex + 1.
slice(view, d, dimOffset) ==
    [view EXCEPT !.offset = @ + dimOffset * view.strides[d],
                 !.sizes = RemoveAt(@, d),
                 !.strides = RemoveAt(@, d)]

FitsDimension_SizeOnly(size, dimOffset, dimSize, dimStride) ==
    /\ 0 <= dimOffset
    /\ 0 <= dimSize
    /\ 1 <= dimStride
    /\ dimSize <= size

\* The elements dimOffset, dimOffset + dimStride, ... (dimSize of them) lie
\* inside a dimension of the given size.
FitsDimension(size, dimOffset, dimSize, dimStride) ==
    /\ 0 <= dimOffset
    /\ 0 <= dimSize
    /\ 1 <= dimStride
    /\ dimOffset <= size
    /\ dimSize = 0 \/ dimOffset + (dimSize - 1) * dimStride < size

\* slice(dimIndex, dimOffset, dimSize, dimStride): dimension dimIndex is
\* narrowed to dimSize elements from dimOffset on, every dimStride-th one;
\* the dimension stays.
sliceRange(view, d, dimOffset, dimSize, dimStride) ==
    [view EXCEPT !.offset = @ + dimOffset * view.strides[d],
                 !.sizes[d] = dimSize,
                 !.strides[d] = @ * dimStride]

\* subview accepts the request: one triple per dimension, each fitting.
subviewOk(view, offsets, sizes, strides) ==
    /\ Len(offsets) = rank(view)
    /\ Len(sizes) = rank(view)
    /\ Len(strides) = rank(view)
    /\ \A d \in 1..rank(view) :
          FitsDimension(view.sizes[d], offsets[d], sizes[d], strides[d])

\* The view subview leaves when it returns true: every dimension narrowed
\* by its triple.
RECURSIVE subviewFrom(_, _, _, _, _)
subviewFrom(view, offsets, sizes, strides, d) ==
    IF d > Len(offsets) THEN view
    ELSE subviewFrom(sliceRange(view, d, offsets[d], sizes[d], strides[d]),
                     offsets, sizes, strides, d + 1)

subview(view, offsets, sizes, strides) ==
    subviewFrom(view, offsets, sizes, strides, 1)

(***************************************************************************)
(* A chain of calls on one TensorOrMemref: what becomes of its view.       *)
(***************************************************************************)
Called(op, ok) == [op |-> op, ok |-> ok]

VwInit ==
    /\ PassOff
    /\ ndebug \in BOOLEAN
    /\ inView \in TensorInputViews
    /\ vw = emptyLikeView(inView, <<>>)
    /\ vwElems = getNumElements(inView, TRUE)
    /\ vwLast = Called("emptyLike", TRUE)
    /\ vwOps = 0
    /\ vwPrev = <<>>
    /\ vwReq = <<>>
    /\ status = "running"
    /\ heap = <<>>
    /\ vals = <<>>
    /\ origin = <<>>
    /\ noted = Did("none", 0, "ok")
    /\ itView = BufferView(0, <<>>, <<>>, nullopt, FALSE)
    /\ itIncl = FALSE
    /\ itIdx = <<>>
    /\ itPc = "start"
    /\ emitted = <<>>

VwFrame ==
    /\ status = "running"
    /\ vwOps < MaxViewOps
    /\ vwOps' = vwOps + 1
    /\ UNCHANGED <<ndebug, inView, heap, vals, origin, noted>>
    /\ UNCHANGED <<itVars, slVars, passVars>>

\* t = TensorOrMemref<T>::empty(t.view.sizes, layout)
VwEmpty ==
    \E layout \in {<<>>} \cup Layouts(Len(vw.sizes)) :
        /\ VwFrame
        /\ vw' = emptyLikeView(emptyDummy(vw.sizes), layout)
        /\ vwElems' = getNumElements(emptyDummy(vw.sizes), TRUE)
        /\ vwLast' = Called("empty", TRUE)
        /\ UNCHANGED status

\* t = TensorOrMemref<T>::emptyLike(t.view, layout)
VwEmptyLike ==
    \E layout \in {<<>>} \cup Layouts(Len(vw.sizes)) :
        /\ VwFrame
        /\ vw' = emptyLikeView(vw, layout)
        /\ vwElems' = getNumElements(vw, TRUE)
        /\ vwLast' = Called("emptyLike", TRUE)
        /\ UNCHANGED status

\* t = t.clone(layout); the elements are zero as allocated
VwClone ==
    \E layout \in {<<>>} \cup Layouts(Len(vw.sizes)) :
        LET r == clone(NewBuffer(vwElems), vw, layout)
        IN  /\ VwFrame
            /\ status' = StatusAfter(r.outcome)
            /\ vwLast' = Called("clone", r.outcome = "ok")
            /\ IF r.outcome = "ok"
               THEN /\ vw' = emptyLikeView(vw, layout)
                    /\ vwElems' = Len(r.buffer.storage)
               ELSE UNCHANGED <<vw, vwElems>>

\* t = t.vectorAt(idx), idx in bounds as the caller owes
VwVectorAt ==
    \E idx \in Tuples(rank(vw), 0..MaxDim) :
        /\ VwFrame
        /\ inBounds(vw, idx)
        /\ vw' = vectorAt(TensorOrMemref(1, vw), idx).view
        /\ vwLast' = Called("vectorAt", TRUE)
        /\ UNCHANGED <<vwElems, status>>

\* t.view.slice(dimIndex, dimOffset), on a dimension and an element of it
VwSlice ==
    \E d \in 1..rank(vw) :
    \E dimOffset \in 0..MaxDim :
        /\ VwFrame
        /\ dimOffset < vw.sizes[d]
        /\ vw' = slice(vw, d, dimOffset)
        /\ vwLast' = Called("slice", TRUE)
        /\ UNCHANGED <<vwElems, status>>

\* t.view.slice(dimIndex, dimOffset, dimSize, dimStride), the range inside
\* the dimension
VwSliceRange ==
    \E d \in 1..rank(vw) :
    \E dimOffset \in 0..MaxDim, dimSize \in 0..MaxDim, dimStride \in 1..MaxDim :
        /\ VwFrame
        /\ FitsDimension(vw.sizes[d], dimOffset, dimSize, dimStride)
        /\ vw' = sliceRange(vw, d, dimOffset, dimSize, dimStride)
        /\ vwLast' = Called("sliceRange", TRUE)
        /\ UNCHANGED <<vwElems, status>>

\* ok = t.view.subview(offsets, sizes, strides); the view is used further
\* only when ok
VwSubview ==
    \E offsets \in Tuples(rank(vw), 0..MaxDim) :
    \E sizes \in Tuples(rank(vw), 0..(MaxDim + 1)) :
    \E strides \in Tuples(rank(vw), 1..MaxDim) :
        /\ VwFrame
        /\ vwLast' = Called("subview", subviewOk(vw, offsets, sizes, strides))
        /\ vw' = IF subviewOk(vw, offsets, sizes, strides)
                 THEN subview(vw, offsets, sizes, strides)
                 ELSE vw
        /\ UNCHANGED <<vwElems, status>>

VwNext ==
    \/ VwEmpty \/ VwEmptyLike \/ VwClone \/ VwVectorAt
    \/ VwSlice \/ VwSliceRange \/ VwSubview

SpecView == VwInit /\ [][VwNext]_vars

MaxSliceOps == 1

Request(d, offsets, sizes, strides) ==
    [d |-> d, offsets |-> offsets, sizes |-> sizes, strides |-> strides]

SlInit ==
    /\ PassOff
    /\ ndebug = FALSE
    /\ inView \in InputViews
    /\ vw = inView
    /\ vwElems = 0
    /\ vwLast = Called("none", TRUE)
    /\ vwOps = 0
    /\ vwPrev = inView
    /\ vwReq = Request(0, <<>>, <<>>, <<>>)
    /\ status = "running"
    /\ heap = <<>>
    /\ vals = <<>>
    /\ origin = <<>>
    /\ noted = Did("none", 0, "ok")
    /\ itView = BufferView(0, <<>>, <<>>, nullopt, FALSE)
    /\ itIncl = FALSE
    /\ itIdx = <<>>
    /\ itPc = "start"
    /\ emitted = <<>>

SlFrame ==
    /\ vwOps < MaxSliceOps
    /\ vwOps' = vwOps + 1
    /\ vwPrev' = vw
    /\ UNCHANGED <<tmVars, itVars, vwElems, passVars>>

\* view.slice(dimIndex, dimOffset)
SlSlice ==
    \E d \in 1..rank(vw) :
    \E dimOffset \in 0..MaxDim :
        /\ SlFrame
        /\ vw' = slice(vw, d, dimOffset)
        /\ vwLast' = Called("slice", TRUE)
        /\ vwReq' = Request(d, <<dimOffset>>, <<>>, <<>>)

\* view.slice(dimIndex, dimOffset, dimSize, dimStride)
SlSliceRange ==
    \E d \in 1..rank(vw) :
    \E dimOffset \in 0..MaxDim, dimSize \in 0..MaxDim, dimStride \in 1..MaxDim :
        /\ SlFrame
        /\ vw' = sliceRange(vw, d, dimOffset, dimSize, dimStride)
        /\ vwLast' = Called("sliceRange", TRUE)
        /\ vwReq' = Request(d, <<dimOffset>>, <<dimSize>>, <<dimStride>>)

\* ok = view.subview(offsets, sizes, strides); the view is left as it was
\* when the call fails
SlSubview ==
    \E offsets \in Tuples(rank(vw), 0..MaxDim) :
    \E sizes \in Tuples(rank(vw), 0..(MaxDim + 1)) :
    \E strides \in Tuples(rank(vw), 1..MaxDim) :
        /\ SlFrame
        /\ vwLast' = Called("subview", subviewOk(vw, offsets, sizes, strides))
        /\ vw' = IF subviewOk(vw, offsets, sizes, strides)
                 THEN subview(vw, offsets, sizes, strides)
                 ELSE vw
        /\ vwReq' = Request(0, offsets, sizes, strides)

SlNext == SlSlice \/ SlSliceRange \/ SlSubview

SpecSlice == SlInit /\ [][SlNext]_vars

\* Some element the request names in dimension d lies outside the dimension
\* as it was before the call.
RegionOutside(d) ==
    \E k \in 0..(vwReq.sizes[d] - 1) :
        LET e == vwReq.offsets[d] + k * vwReq.strides[d]
        IN  e < 0 \/ e >= vwPrev.sizes[d]

\* The storage elements a view addresses: the physical indices of its
\* in-bounds indices, one index per dimension.
Addressed(view) ==
    {getPhysicalIndex(view, j) :
        j \in {i \in Tuples(Len(view.sizes), 0..MaxDim) : inBounds(view, i)}}

\* C11: subview returns false whenever the requested region does not fit
\* inside some dimension, offset and stride accounted for; when it returns
\* true every in-bounds index of the resulting view addresses an element
\* that was in bounds for the view before the call.
C11_SubviewRejectsOrNarrows ==
    vwLast.op = "subview" =>
        /\ (\E d \in 1..Len(vwReq.sizes) : RegionOutside(d)) => ~vwLast.ok
        /\ vwLast.ok => Addressed(vw) \subseteq Addressed(vwPrev)

C11_Accepted ==
    /\ vwLast = Called("subview", TRUE)
    /\ vwPrev.sizes = <<2, 2>>
    /\ vwReq.offsets = <<1, 0>>
    /\ vwReq.sizes = <<1, 2>>
    /\ vw.offset = vwPrev.offset + vwPrev.strides[1]

C11_Witness ==
    /\ vwLast = Called("subview", FALSE)
    /\ vwPrev.sizes = <<2>>
    /\ vwReq = Request(0, <<0>>, <<3>>, <<1>>)

InsertAt(j, d, x) == SubSeq(j, 1, d - 1) \o <<x>> \o SubSeq(j, d, Len(j))

\* C12: slice(dimIndex, dimOffset) takes entry dimIndex out of sizes and
\* strides, the others keeping value and order, and adds
\* dimOffset * strides[dimIndex] to offset; the physical index of j on the
\* result is that of j with dimOffset inserted at dimIndex on the original.
C12_SliceRemovesDimension ==
    vwLast.op = "slice" =>
        LET d == vwReq.d
            dimOffset == vwReq.offsets[1]
            n == Len(vwPrev.sizes)
        IN  /\ Len(vw.sizes) = n - 1
            /\ Len(vw.strides) = n - 1
            /\ \A i \in 1..(n - 1) :
                  /\ vw.sizes[i] = vwPrev.sizes[IF i < d THEN i ELSE i + 1]
                  /\ vw.strides[i] = vwPrev.strides[IF i < d THEN i ELSE i + 1]
            /\ vw.offset = vwPrev.offset + dimOffset * vwPrev.strides[d]
            /\ \A j \in Tuples(n - 1, 0..MaxDim) :
                  getPhysicalIndex(vw, j)
                      = getPhysicalIndex(vwPrev, InsertAt(j, d, dimOffset))

\* sizes [2,2], strides [2,1], offset 0, slice(0,1): sizes [2], strides [1],
\* offset 2
C12_Witness ==
    /\ vwLast = Called("slice", TRUE)
    /\ vwPrev = BufferView(0, <<2, 2>>, <<2, 1>>, nullopt, FALSE)
    /\ vwReq = Request(1, <<1>>, <<>>, <<>>)
    /\ vw = BufferView(2, <<2>>, <<1>>, nullopt, FALSE)

(***************************************************************************)
(* One call of empty / emptyLike, the argument and the layout kept.        *)
(***************************************************************************)
EmInit ==
    /\ PassOff
    /\ ndebug = FALSE
    /\ inView \in InputViews
    /\ heap = <<>>
    /\ vals = <<>>
    /\ origin = <<>>
    /\ noted = Did("none", 0, "ok")
    /\ status = "running"
    /\ vw = BufferView(0, <<>>, <<>>, nullopt, FALSE)
    /\ vwElems = 0
    /\ vwLast = Called("none", TRUE)
    /\ vwOps = 0
    /\ vwPrev = inView
    /\ vwReq = <<>>
    /\ itView = BufferView(0, <<>>, <<>>, nullopt, FALSE)
    /\ itIncl = FALSE
    /\ itIdx = <<>>
    /\ itPc = "start"
    /\ emitted = <<>>

\* vals = {emptyLike(view, layout)}
AllocEmptyLike(op, view, layout) ==
    /\ vals = <<>>
    /\ heap' = <<emptyLikeBuffer(view)>>
    /\ vals' = <<TensorOrMemref(resultBuffer(0, 1), emptyLikeView(view, layout))>>
    /\ origin' = <<Made("emptyLike", 0, <<>>, FALSE, <<>>)>>
    /\ vwLast' = Called(op, TRUE)
    /\ vwPrev' = view
    /\ vwReq' = layout
    /\ UNCHANGED <<ndebug, inView, noted, status, itVars, vw, vwElems, vwOps>>
    /\ UNCHANGED passVars

\* TensorOrMemref<T>::empty(sizes, layout)
EmEmpty ==
    \E layout \in {<<>>} \cup Layouts(Len(inView.sizes)) :
        AllocEmptyLike("empty", emptyDummy(inView.sizes), layout)

\* TensorOrMemref<T>::emptyLike(view, layout)
EmEmptyLike ==
    \E layout \in {<<>>} \cup Layouts(Len(inView.sizes)) :
        AllocEmptyLike("emptyLike", inView, layout)

EmNext == EmEmpty \/ EmEmptyLike

SpecEmpty == EmInit /\ [][EmNext]_vars

\* Row-major strides: 1 for the last dimension, size * stride of the next
\* dimension for every other one.
IsRowMajor(sizes, strides) ==
    /\ Len(strides) = Len(sizes)
    /\ \A i \in 1..Len(sizes) :
          strides[i] = IF i = Len(sizes) THEN 1
                       ELSE sizes[i + 1] * strides[i + 1]

\* C13: empty(sizes, layout) and emptyLike(view, layout) return a value
\* whose Buffer holds exactly getNumElements(true) elements of T
\* (getByteSize() = getNumElements(true) * sizeof(T)) and whose view has
\* offset 0, the sizes, numVectorDims and isVector of the argument, and the
\* strides getStridesForLayout(sizes, layout): row-major for an empty layout.
C13_EmptyAllocates ==
    vwLast.op \in {"empty", "emptyLike"} =>
        LET t == vals[1]
            buf == heap[t.buffer]
        IN  /\ Len(buf.storage) = getNumElements(vwPrev, TRUE)
            /\ getByteSize(buf) = getNumElements(vwPrev, TRUE) * sizeofT
            /\ vwLast.op = "empty" =>
                  /\ vwPrev.sizes = inView.sizes
                  /\ vwPrev.numVectorDims = nullopt
                  /\ ~vwPrev.isVector
            /\ vwLast.op = "emptyLike" => vwPrev = inView
            /\ t.view.offset = 0
            /\ t.view.sizes = vwPrev.sizes
            /\ t.view.numVectorDims = vwPrev.numVectorDims
            /\ t.view.isVector = vwPrev.isVector
            /\ t.view.strides = getStridesForLayout(vwPrev.sizes, vwReq)
            /\ vwReq = <<>> => IsRowMajor(t.view.sizes, t.view.strides)

\* emptyLike of a view with offset 1, column-major strides and a vector
\* dimension, row-major asked for: 4 elements, 16 bytes
C13_Witness ==
    /\ vwLast = Called("emptyLike", TRUE)
    /\ vwReq = <<>>
    /\ inView = BufferView(1, <<2, 2>>, <<1, 2>>, <<1>>, FALSE)
    /\ vals[1].view = BufferView(0, <<2, 2>>, <<2, 1>>, <<1>>, FALSE)
    /\ getByteSize(heap[1]) = 16

\* C14: on every TensorOrMemref reached from empty / emptyLike / clone by
\* vectorAt, slice and successful subview, every index tuple view.inBounds
\* accepts has a physical index p with 0 <= p and
\* (p + 1) * sizeof(T) <= buffer.getByteSize().
C14_InBoundsWithinStorage ==
    \A idx \in TuplesUpTo(Len(vw.sizes), 0..MaxDim) :
        inBounds(vw, idx) =>
            LET p == getPhysicalIndex(vw, idx)
            IN  0 <= p /\ (p + 1) * sizeofT <= vwElems * sizeofT

\* The same for the index tuples that give one index per dimension.
FullIndicesWithinStorage ==
    \A idx \in Tuples(Len(vw.sizes), 0..MaxDim) :
        inBounds(vw, idx) =>
            LET p == getPhysicalIndex(vw, idx)
            IN  0 <= p /\ (p + 1) * sizeofT <= vwElems * sizeofT

(***************************************************************************)
(* gml_st_to_gpu.cc: ParallelOpToGpuPattern::matchAndRewrite.              *)
(*                                                                         *)
(* The nest is the sequence of its operations as they are written: a       *)
(* gml_st.parallel ("parA", "parB", "parC", "par2"), the operations of its *)
(* body, and the terminator of the body ("end"); "op" is any operation     *)
(* that is no gml_st.parallel.  An operation is named by its position.     *)
(***************************************************************************)
MaxNestTokens == 8

viewVars == <<itVars, tmVars, vwVars, slVars>>

\* no BufferView / TensorOrMemref program is running
ViewsOff ==
    /\ itView = BufferView(0, <<>>, <<>>, nullopt, FALSE)
    /\ itIncl = FALSE
    /\ itIdx = <<>>
    /\ itPc = "start"
    /\ emitted = <<>>
    /\ ndebug = FALSE
    /\ inView = BufferView(0, <<>>, <<>>, nullopt, FALSE)
    /\ heap = <<>>
    /\ vals = <<>>
    /\ origin = <<>>
    /\ noted = <<>>
    /\ status = "running"
    /\ vw = BufferView(0, <<>>, <<>>, nullopt, FALSE)
    /\ vwElems = 0
    /\ vwLast = <<>>
    /\ vwOps = 0
    /\ vwPrev = <<>>
    /\ vwReq = <<>>

\* the gml_st.parallel ops told apart: "parA" has bounds (lb1, ub1, step1),
\* "parB" another upper bound, "parC" another step, "par2" two induction
\* variables
Parallels == {"parA", "parB", "parC", "par2"}

\* an SSA value: what defines it, the operands of that, and the operation
\* (position) it was created for
Value(def, operands, at) == [def |-> def, operands |-> operands, at |-> at]

getNumLoops(parallel) == IF parallel = "par2" THEN 2 ELSE 1

\* parallel.getUpperBound().front()
getUpperBound(parallel) ==
    Value(IF parallel = "parB" THEN "ub2" ELSE "ub1", <<>>, 0)

\* parallel.getLowerBound().front()
getLowerBound(parallel) == Value("lb1", <<>>, 0)

\* parallel.getStep().front()
getStep(parallel) ==
    Value(IF parallel = "parC" THEN "step2" ELSE "step1", <<>>, 0)

\* The operation sequences of n operations and terminators that a body can
\* be made of.
RECURSIVE Bodies(_)
Bodies(n) ==
    IF n = 0 THEN {<<>>}
    ELSE {<<"op">> \o b : b \in Bodies(n - 1)}
         \cup UNION {UNION {{<<par>> \o inner \o <<"end">> \o rest :
                                inner \in Bodies(i), rest \in Bodies(n - 2 - i)} :
                            i \in 0..(n - 2)} :
                     par \in Parallels}

\* The nests given as root: a gml_st.parallel with its body.
Programs ==
    {<<root>> \o b \o <<"end">> :
        root \in Parallels,
        b \in UNION {Bodies(n) : n \in 0..(MaxNestTokens - 2)}}

\* Position of the terminator of the body that position i lies in, depth
\* counting the bodies opened from the start of the scan on.
RECURSIVE TerminatorFrom(_, _, _)
TerminatorFrom(tokens, i, depth) ==
    IF tokens[i] = "end"
    THEN IF depth = 0 THEN i ELSE TerminatorFrom(tokens, i + 1, depth - 1)
    ELSE IF tokens[i] \in Parallels
         THEN TerminatorFrom(tokens, i + 1, depth + 1)
         ELSE TerminatorFrom(tokens, i + 1, depth)

\* parallel.getBody()->without_terminator(), for the parallel at position p:
\* the range [begin, end) of positions
without_terminator(tokens, p) == <<p + 1, TerminatorFrom(tokens, p + 1, 0)>>

NextOp_Inside(tokens, i) == i + 1

\* std::next(op.getIterator())
NextOp(tokens, i) ==
    IF tokens[i] \in Parallels THEN TerminatorFrom(tokens, i + 1, 0) + 1
    ELSE i + 1

defaultSize == Value("constant 1", <<>>, 0)

\* createInitialGpuLaunchOp: all six launch sizes are defaultSize
createInitialGpuLaunchOp == [i \in 1..6 |-> defaultSize]

\* launch.body().getArgument(idx)
getArgument(idx) == Value("launch argument", <<>>, idx)

kNestingToLaunchIdx_XThenY == <<0, 3, 4>>

kNestingToLaunchIdx == <<0, 4, 3>>

\* getInductionVarIdxForLevel: <<>> is failure, <<idx>> success
getInductionVarIdxForLevel(nestingLevel) ==
    IF nestingLevel >= Len(kNestingToLaunchIdx) THEN <<>>
    ELSE <<kNestingToLaunchIdx[nestingLevel + 1]>>

verifyLoopBoundsMatch_BoundsOnly(currentBound, parallel) ==
    /\ currentBound.operands[1] = getUpperBound(parallel)
    /\ currentBound.operands[2] = getLowerBound(parallel)

\* verifyLoopBoundsMatch(currentBound, parallel)
verifyLoopBoundsMatch(currentBound, parallel) ==
    /\ currentBound.operands[1] = getUpperBound(parallel)
    /\ currentBound.operands[2] = getLowerBound(parallel)
    /\ currentBound.operands[3] = getStep(parallel)

\* matchLaunchSpaceToLoop: the affine.apply giving the induction variable
inductionVarOf(parallel, p, launchIdx) ==
    Value("d0 * s1 + s0",
          <<getArgument(launchIdx), getLowerBound(parallel), getStep(parallel)>>,
          p)

\* matchLaunchSpaceToLoop: the affine.apply set as launch operand
launchBoundOf(parallel, p) ==
    Value("(d0 - s0) ceildiv s1",
          <<getUpperBound(parallel), getLowerBound(parallel), getStep(parallel)>>,
          p)

Failure == [ok |-> FALSE]

\* processParallelOp(parallel), parallel at position p, on the given
\* loopIterators, launch, nestingLevelToInductionVarMap and bvm
processParallelOp(tokens, p, stack, lnch, levelMap, map) ==
    LET parallel == tokens[p]
        nestingLevel == Len(stack)
        inductionVarIdx == getInductionVarIdxForLevel(nestingLevel)
    IN  IF inductionVarIdx = <<>> THEN Failure
        ELSE IF getNumLoops(parallel) # 1 THEN Failure
        ELSE
          LET idx == inductionVarIdx[1]
              currentBound == lnch[idx + 1]
              seen == nestingLevel < Len(levelMap)
              newMap == IF seen THEN levelMap
                        ELSE Append(levelMap, inductionVarOf(parallel, p, idx))
              newLaunch == IF seen THEN lnch
                           ELSE [lnch EXCEPT ![idx + 1] = launchBoundOf(parallel, p)]
          IN  IF seen /\ ~verifyLoopBoundsMatch(currentBound, parallel)
              THEN Failure
              ELSE [ok |-> TRUE,
                    launch |-> newLaunch,
                    levelMap |-> newMap,
                    bvm |-> (p :> newMap[nestingLevel + 1]) @@ map,
                    stack |-> Append(stack, without_terminator(tokens, p))]

GpuInit ==
    /\ ViewsOff
    /\ LsOff
    /\ WkOff
    /\ prog \in Programs
    /\ gpc = "start"
    /\ loopIterators = <<>>
    /\ currentLoop = <<>>
    /\ launch = <<>>
    /\ nestingLevelToInductionVarMap = <<>>
    /\ bvm = <<>>
    /\ cloned = <<>>
    /\ gresult = "none"

GpuFrame == UNCHANGED <<viewVars, lsVars, wkVars, prog>>

\* what a call of processParallelOp leaves, r being what it computed
AfterProcess(r, lnch, stack) ==
    IF r.ok
    THEN /\ launch' = r.launch
         /\ nestingLevelToInductionVarMap' = r.levelMap
         /\ bvm' = r.bvm
         /\ loopIterators' = r.stack
         /\ gpc' = "while"
         /\ UNCHANGED gresult
    ELSE /\ launch' = lnch
         /\ loopIterators' = stack
         /\ gpc' = "done"
         /\ gresult' = "failure"
         /\ UNCHANGED <<nestingLevelToInductionVarMap, bvm>>

\* the launch op is created; if (failed(processParallelOp(root))) return failure();
GpuStart ==
    /\ gpc = "start"
    /\ AfterProcess(processParallelOp(prog, 1, loopIterators,
                                      createInitialGpuLaunchOp,
                                      nestingLevelToInductionVarMap, bvm),
                    createInitialGpuLaunchOp, loopIterators)
    /\ UNCHANGED <<currentLoop, cloned>>
    /\ GpuFrame

\* while (!loopIterators.empty()) { currentLoop = loopIterators.pop_back_val();
GpuWhilePop ==
    /\ gpc = "while"
    /\ loopIterators # <<>>
    /\ currentLoop' = loopIterators[Len(loopIterators)]
    /\ loopIterators' = SubSeq(loopIterators, 1, Len(loopIterators) - 1)
    /\ gpc' = "for"
    /\ UNCHANGED <<launch, nestingLevelToInductionVarMap, bvm, cloned, gresult>>
    /\ GpuFrame

\* the while loop is left: rewriter.eraseOp(root); return success();
GpuWhileExit ==
    /\ gpc = "while"
    /\ loopIterators = <<>>
    /\ gpc' = "done"
    /\ gresult' = "success"
    /\ UNCHANGED <<loopIterators, currentLoop, launch,
                   nestingLevelToInductionVarMap, bvm, cloned>>
    /\ GpuFrame

\* the for loop has run over all of currentLoop
GpuForEnd ==
    /\ gpc = "for"
    /\ currentLoop[1] = currentLoop[2]
    /\ gpc' = "while"
    /\ UNCHANGED <<loopIterators, currentLoop, launch,
                   nestingLevelToInductionVarMap, bvm, cloned, gresult>>
    /\ GpuFrame

\* op is a ParallelOp: the rest of currentLoop is pushed, the nested
\* parallel processed, and the for loop left
GpuForNested ==
    /\ gpc = "for"
    /\ currentLoop[1] # currentLoop[2]
    /\ prog[currentLoop[1]] \in Parallels
    /\ LET op == currentLoop[1]
           pushed == Append(loopIterators, <<NextOp(prog, op), currentLoop[2]>>)
       IN  AfterProcess(processParallelOp(prog, op, pushed, launch,
                                          nestingLevelToInductionVarMap, bvm),
                        launch, pushed)
    /\ UNCHANGED <<currentLoop, cloned>>
    /\ GpuFrame

\* Operation* clone = rewriter.clone(op, bvm); bvm.map(op.getResults(), ...)
GpuForClone ==
    /\ gpc = "for"
    /\ currentLoop[1] # currentLoop[2]
    /\ prog[currentLoop[1]] \notin Parallels
    /\ LET op == currentLoop[1]
       IN  /\ cloned' = Append(cloned, op)
           /\ bvm' = (op :> Value("clone", <<>>, op)) @@ bvm
           /\ currentLoop' = <<NextOp(prog, op), currentLoop[2]>>
    /\ UNCHANGED <<loopIterators, launch, nestingLevelToInductionVarMap,
                   gpc, gresult>>
    /\ GpuFrame

GpuNext ==
    \/ GpuStart \/ GpuWhilePop \/ GpuWhileExit
    \/ GpuForEnd \/ GpuForNested \/ GpuForClone

SpecGpu == GpuInit /\ [][GpuNext]_vars

\* matchAndRewrite runs on one thread and is not suspended for ever
SpecGpuLive == GpuInit /\ [][GpuNext]_vars /\ WF_vars(GpuNext)

(***************************************************************************)
(* The nest as it is written, for the properties.                          *)
(***************************************************************************)
ParallelOps == {p \in 1..Len(prog) : prog[p] \in Parallels}

\* number of gml_st.parallel ops that enclose position p: those opened
\* before p and not closed before p
NestingLevel(p) ==
    Cardinality({j \in 1..(p - 1) : prog[j] \in Parallels})
        - Cardinality({j \in 1..(p - 1) : prog[j] = "end"})

\* the gml_st.parallel ops processParallelOp has mapped
Mapped == {p \in ParallelOps : p \in DOMAIN bvm}

LaunchIdxOfLevel(level) ==
    CASE level = 0 -> 0
      [] level = 1 -> 4
      [] level = 2 -> 3

TooDeepOrWide(p) == NestingLevel(p) >= 3 \/ getNumLoops(prog[p]) > 1

\* C15: a gml_st.parallel at nesting level 0, 1, 2 is mapped to launch
\* operand / region argument 0, 4, 3, its level being the number of
\* enclosing gml_st.parallel ops; one at level 3 or deeper, or with more
\* than one induction variable, makes matchAndRewrite return failure.
C15_LevelToLaunchDimension ==
    /\ \A p \in Mapped :
          /\ NestingLevel(p) \in 0..2
          /\ bvm[p].operands[1] = getArgument(LaunchIdxOfLevel(NestingLevel(p)))
          /\ launch[LaunchIdxOfLevel(NestingLevel(p)) + 1] # defaultSize
          /\ \A i \in 1..6 :
                launch[i] # defaultSize =>
                    \E q \in Mapped : i = LaunchIdxOfLevel(NestingLevel(q)) + 1
    /\ gresult = "success" => Mapped = ParallelOps
    /\ (gpc = "done" /\ \E p \in ParallelOps : TooDeepOrWide(p))
          => gresult = "failure"

C15_Witness ==
    /\ gresult = "success"
    /\ prog = <<"parA", "parA", "parA", "op", "end", "end", "end">>
    /\ bvm[1].operands[1] = getArgument(0)
    /\ bvm[2].operands[1] = getArgument(4)
    /\ bvm[3].operands[1] = getArgument(3)

C15_TooDeep ==
    /\ gresult = "failure"
    /\ prog = <<"parA", "parA", "parA", "parA", "end", "end", "end", "end">>
    /\ Mapped = {1, 2, 3}

\* the first gml_st.parallel, as the nest is written, at the level of p
FirstAtLevelOf(p) ==
    CHOOSE q \in ParallelOps :
        /\ NestingLevel(q) = NestingLevel(p)
        /\ \A r \in ParallelOps : NestingLevel(r) = NestingLevel(p) => q <= r

SameIterationSpace(p, q) ==
    /\ getLowerBound(prog[p]) = getLowerBound(prog[q])
    /\ getUpperBound(prog[p]) = getUpperBound(prog[q])
    /\ getStep(prog[p]) = getStep(prog[q])

C16_SameSpace ==
    /\ \A p \in Mapped :
          LET first == FirstAtLevelOf(p)
          IN  /\ SameIterationSpace(p, first)
              /\ bvm[p] = bvm[first]
              /\ bvm[p].at = first
              /\ launch[LaunchIdxOfLevel(NestingLevel(p)) + 1]
                     = Value("(d0 - s0) ceildiv s1",
                             <<getUpperBound(prog[first]),
                               getLowerBound(prog[first]),
                               getStep(prog[first])>>,
                             first)
    /\ gresult = "success" =>
          \A p \in ParallelOps : SameIterationSpace(p, FirstAtLevelOf(p))
    /\ (gpc = "done"
          /\ \E p \in ParallelOps : ~SameIterationSpace(p, FirstAtLevelOf(p)))
          => gresult = "failure"

C16_BoundSetOnce ==
    \A i \in 1..6 :
        (launch # <<>> /\ launch[i] # defaultSize) => launch'[i] = launch[i]

RECURSIVE PlainOpsFrom(_)
PlainOpsFrom(i) ==
    IF i > Len(prog) THEN <<>>
    ELSE (IF prog[i] = "op" THEN <<i>> ELSE <<>>) \o PlainOpsFrom(i + 1)

PassesAllChecks ==
    \A p \in ParallelOps :
        ~TooDeepOrWide(p) /\ SameIterationSpace(p, FirstAtLevelOf(p))

C18_Flattened ==
    (gpc = "done" /\ gresult = "success") =>
        /\ loopIterators = <<>>
        /\ cloned = PlainOpsFrom(1)
        /\ \A k \in 1..Len(cloned) : prog[cloned[k]] \notin Parallels

\* C18: on a nest of depth at most 3 that passes all checks the worklist
\* loop terminates with loopIterators empty, having cloned every operation
\* of every body that is no gml_st.parallel and no terminator exactly once,
\* in the order the operations are written, and no gml_st.parallel.
C18_WorklistFlattensNest ==
    /\ [](PassesAllChecks => <>(gpc = "done" /\ gresult = "success"))
    /\ []C18_Flattened

C18_Witness ==
    /\ gpc = "done"
    /\ gresult = "success"
    /\ loopIterators = <<>>
    /\ prog = <<"parA", "op", "parA", "op", "end", "op", "end">>
    /\ cloned = <<2, 4, 6>>

(***************************************************************************)
(* matchLaunchSpaceToLoop: the launch bound and the induction variable of  *)
(* one gml_st.parallel, on the values the affine maps compute.             *)
(***************************************************************************)
MaxLoopBound == 3

MaxLoopStep == 3

\* affine ceildiv with a positive divisor
ceilDiv(a, b) == -((-a) \div b)

floorDiv(a, b) == a \div b

launchBoundMap_FloorDiv(d0, s0, s1) == floorDiv(d0 - s0, s1)

\* (d0 - s0) ceildiv s1, applied to (upperBound, lowerBound, step)
launchBoundMap(d0, s0, s1) == ceilDiv(d0 - s0, s1)

\* d0 * s1 + s0, applied to (id, lowerBound, step)
inductionVarMap(d0, s0, s1) == d0 * s1 + s0

LsInit ==
    /\ ViewsOff
    /\ GpuOff
    /\ WkOff
    /\ lsLoop \in [lb : (-MaxLoopBound)..MaxLoopBound,
                   ub : (-MaxLoopBound)..MaxLoopBound,
                   step : 1..MaxLoopStep]
    /\ lsBound = <<>>
    /\ lsRan = {}
    /\ lsIvs = <<>>

\* matchLaunchSpaceToLoop sets the launch operand
LsMatch ==
    /\ lsBound = <<>>
    /\ lsBound' = <<launchBoundMap(lsLoop.ub, lsLoop.lb, lsLoop.step)>>
    /\ UNCHANGED <<lsLoop, lsRan, lsIvs, viewVars, gpuVars, wkVars>>

\* one block / thread of the launch runs: its id is below the launch bound
LsRun ==
    /\ lsBound # <<>>
    /\ \E id \in 0..(lsBound[1] - 1) :
          /\ id \notin lsRan
          /\ lsRan' = lsRan \cup {id}
          /\ lsIvs' = (id :> inductionVarMap(id, lsLoop.lb, lsLoop.step)) @@ lsIvs
    /\ UNCHANGED <<lsLoop, lsBound, viewVars, gpuVars, wkVars>>

LsNext == LsMatch \/ LsRun

SpecLaunch == LsInit /\ [][LsNext]_vars

\* for (i = lb; i < ub; i += step): the values of i, in order
RECURSIVE LoopValuesFrom(_)
LoopValuesFrom(i) ==
    IF i < lsLoop.ub THEN <<i>> \o LoopValuesFrom(i + lsLoop.step) ELSE <<>>

\* C17: for step > 0 the launch bound ceilDiv(ub - lb, step) and the
\* expression id * step + lb are the loop: as id runs over 0 .. bound - 1
\* the expression takes the values lb, lb + step, ... below ub, each once,
\* and no value >= ub.
C17_LaunchSpaceIsLoop ==
    lsBound # <<>> =>
        LET loop == LoopValuesFrom(lsLoop.lb)
        IN  /\ Len(loop) = IF lsBound[1] > 0 THEN lsBound[1] ELSE 0
            /\ \A id \in lsRan :
                  /\ lsIvs[id] = loop[id + 1]
                  /\ lsIvs[id] < lsLoop.ub
            /\ \A id1, id2 \in lsRan : lsIvs[id1] = lsIvs[id2] => id1 = id2

\* lb -1, ub 3, step 3: bound 2, the ids 0 and 1 ran with -1 and 2
C17_Witness ==
    /\ lsLoop = [lb |-> -1, ub |-> 3, step |-> 3]
    /\ lsBound = <<2>>
    /\ lsRan = {0, 1}
    /\ lsIvs[0] = -1
    /\ lsIvs[1] = 2

(***************************************************************************)
(* validator_runner_impl.cc: the detached worker thread of                 *)
(* ValidatorRunnerImpl::TriggerValidationAsync.  What FileLock::TryLock,   *)
(* ProcessRunner::Init / Run and FlatbufferStorage::Append return is the   *)
(* environment's choice.                                                   *)
(***************************************************************************)
MaxSettings == 3

kMinibenchmarkSuccess == "kMinibenchmarkSuccess"

\* what a call can return: success, or a failure status of its own
Returns(call) == {kMinibenchmarkSuccess, call \o " failed"}

\* a call the worker made for a setting (0: for none), and what it returned
Call(call, setting, returned) ==
    [call |-> call, setting |-> setting, returned |-> returned]

\* a BenchmarkEvent held by the storage
BenchmarkEvent(type, setting, error) ==
    [type |-> type, setting |-> setting, error |-> error]

\* if (status == kMinibenchmarkSuccess) after runner.Init()
AfterInit(st) == IF st = kMinibenchmarkSuccess THEN "append start" ELSE "check"

AfterAppendStart_RunAnyway(st) == "run"

\* if (status == kMinibenchmarkSuccess) after storage.Append of START
AfterAppendStart(st) == IF st = kMinibenchmarkSuccess THEN "run" ELSE "check"

\* the for loop goes to the next setting, or is left
NextSetting(i) == IF i < wkSettings THEN "init" ELSE "done"

WkInit ==
    /\ ViewsOff
    /\ GpuOff
    /\ LsOff
    /\ wkSettings \in 0..MaxSettings
    /\ wkPc = "trigger"
    /\ wkIdx = 0
    /\ wkStatus = "none"
    /\ wkCalls = <<>>
    /\ wkStorage = <<>>

WkFrame == UNCHANGED <<viewVars, gpuVars, lsVars, wkSettings>>

\* TriggerValidationAsync: nothing to do for an empty list, else the thread
\* is started and detached
WkTrigger ==
    /\ wkPc = "trigger"
    /\ wkPc' = IF wkSettings = 0 THEN "returned" ELSE "lock"
    /\ UNCHANGED <<wkIdx, wkStatus, wkCalls, wkStorage>>
    /\ WkFrame

\* if (!lock.TryLock()) return;
WkTryLock ==
    /\ wkPc = "lock"
    /\ \E locked \in BOOLEAN :
          /\ wkCalls' = Append(wkCalls, Call("TryLock", 0, locked))
          /\ wkPc' = IF locked THEN "init" ELSE "done"
          /\ wkIdx' = IF locked THEN 1 ELSE wkIdx
    /\ UNCHANGED <<wkStatus, wkStorage>>
    /\ WkFrame

\* MinibenchmarkStatus status = runner.Init();
WkRunnerInit ==
    /\ wkPc = "init"
    /\ \E st \in Returns("Init") :
          /\ wkStatus' = st
          /\ wkCalls' = Append(wkCalls, Call("Init", wkIdx, st))
          /\ wkPc' = AfterInit(st)
    /\ UNCHANGED <<wkIdx, wkStorage>>
    /\ WkFrame

\* status = storage.Append(&fbb, START event);
WkAppendStart ==
    /\ wkPc = "append start"
    /\ \E st \in Returns("Append") :
          /\ wkStatus' = st
          /\ wkCalls' = Append(wkCalls, Call("Append START", wkIdx, st))
          /\ wkStorage' = IF st = kMinibenchmarkSuccess
                          THEN Append(wkStorage,
                                      BenchmarkEvent("START", wkIdx, "none"))
                          ELSE wkStorage
          /\ wkPc' = AfterAppendStart(st)
    /\ UNCHANGED wkIdx
    /\ WkFrame

\* status = runner.Run(nullptr, args, &output, &exitcode, &signal);
WkRun ==
    /\ wkPc = "run"
    /\ \E st \in Returns("Run") :
          /\ wkStatus' = st
          /\ wkCalls' = Append(wkCalls, Call("Run", wkIdx, st))
    /\ wkPc' = "check"
    /\ UNCHANGED <<wkIdx, wkStorage>>
    /\ WkFrame

\* if (status != kMinibenchmarkSuccess) storage.Append(&fbb, ERROR event);
\* what Append returns is not looked at
WkAppendError ==
    /\ wkPc = "check"
    /\ wkStatus # kMinibenchmarkSuccess
    /\ \E st \in Returns("Append") :
          /\ wkCalls' = Append(wkCalls, Call("Append ERROR", wkIdx, st))
          /\ wkStorage' = IF st = kMinibenchmarkSuccess
                          THEN Append(wkStorage,
                                      BenchmarkEvent("ERROR", wkIdx, wkStatus))
                          ELSE wkStorage
    /\ wkPc' = NextSetting(wkIdx)
    /\ wkIdx' = wkIdx + 1
    /\ UNCHANGED wkStatus
    /\ WkFrame

\* status == kMinibenchmarkSuccess: the loop body ends without an ERROR event
WkNoError ==
    /\ wkPc = "check"
    /\ wkStatus = kMinibenchmarkSuccess
    /\ wkPc' = NextSetting(wkIdx)
    /\ wkIdx' = wkIdx + 1
    /\ UNCHANGED <<wkStatus, wkCalls, wkStorage>>
    /\ WkFrame

WkNext ==
    \/ WkTrigger \/ WkTryLock \/ WkRunnerInit \/ WkAppendStart
    \/ WkRun \/ WkAppendError \/ WkNoError

SpecWorker == WkInit /\ [][WkNext]_vars

\* the places in wkCalls of the calls of one kind made for setting s
CallsFor(call, s) ==
    {k \in 1..Len(wkCalls) : wkCalls[k].call = call /\ wkCalls[k].setting = s}

Succeeded(call, s) ==
    \E k \in CallsFor(call, s) : wkCalls[k].returned = kMinibenchmarkSuccess

Failed(call, s) ==
    \E k \in CallsFor(call, s) : wkCalls[k].returned # kMinibenchmarkSuccess

\* the loop body has ended for setting s
Finished(s) == s < wkIdx

LockTaken == wkCalls # <<>> /\ wkCalls[1] = Call("TryLock", 0, TRUE)

\* per setting: order, START only after Init succeeded, Run only after the
\* START append succeeded, an ERROR append exactly on a failure
WkPerSetting ==
    /\ \A k1, k2 \in 1..Len(wkCalls) :
          k1 < k2 => wkCalls[k1].setting <= wkCalls[k2].setting
    /\ \A s \in 1..wkSettings :
          /\ \A call \in {"Init", "Append START", "Run", "Append ERROR"} :
                Cardinality(CallsFor(call, s)) <= 1
          /\ \A k \in CallsFor("Append START", s) :
                \E i \in CallsFor("Init", s) :
                    i < k /\ wkCalls[i].returned = kMinibenchmarkSuccess
          /\ \A k \in CallsFor("Run", s) :
                \E i \in CallsFor("Append START", s) :
                    i < k /\ wkCalls[i].returned = kMinibenchmarkSuccess
          /\ Finished(s) =>
                /\ Cardinality(CallsFor("Init", s)) = 1
                /\ (CallsFor("Append ERROR", s) # {})
                      <=> (Failed("Init", s) \/ Failed("Append START", s)
                               \/ Failed("Run", s))

AllProcessed == \A s \in 1..wkSettings : Finished(s)

\* C19: in the worker started by TriggerValidationAsync each setting is
\* processed exactly once and in list order; START is appended only if
\* Init succeeded, Run is invoked only after START was appended
\* successfully, an ERROR event is appended iff Init, the START append or
\* Run did not return kMinibenchmarkSuccess; a failure on one setting does
\* not stop the settings after it.
C19_EachSettingOnce ==
    /\ WkPerSetting
    /\ wkPc = "done" => AllProcessed

\* C19 amended: the same once the worker has taken the parent lock; a
\* worker that does not get the lock returns without processing a setting.
C19_EachSettingOnceUnderLock ==
    /\ WkPerSetting
    /\ (wkPc = "done" /\ LockTaken) => AllProcessed
    /\ ~LockTaken => \A k \in 1..Len(wkCalls) : wkCalls[k].call = "TryLock"
    /\ (wkPc = "done" /\ ~LockTaken) => wkIdx = 0 /\ wkStorage = <<>>

\* two settings: Init fails on the first, its ERROR is appended, and the
\* second runs through
C19_Witness ==
    /\ wkPc = "done"
    /\ wkSettings = 2
    /\ wkCalls = <<Call("TryLock", 0, TRUE),
                   Call("Init", 1, "Init failed"),
                   Call("Append ERROR", 1, kMinibenchmarkSuccess),
                   Call("Init", 2, kMinibenchmarkSuccess),
                   Call("Append START", 2, kMinibenchmarkSuccess),
                   Call("Run", 2, kMinibenchmarkSuccess)>>
    /\ wkStorage = <<BenchmarkEvent("ERROR", 1, "Init failed"),
                     BenchmarkEvent("START", 2, "none")>>

====
